---- MODULE Spec2Model ----
(***************************************************************************)
(* The search pipeline of src/src/App.tsx (component App): the form state, *)
(* the provider script loader, handleSearch with its two paths (single     *)
(* shot search; paged text search followed by concurrent detail fetches),  *)
(* the ranking and the publication of the working set.                     *)
(*                                                                         *)
(* Optional JavaScript values are sequences: <<>> is undefined/null and    *)
(* <<v>> is the value v.  A place of the provider is a number of Places;   *)
(* its provider record is given by the operators of the next section.      *)
(* handleSearch closes over the form values of the render it was invoked   *)
(* in, so the form is edited only while no invocation is pending: the      *)
(* form variables then are the values the running pipeline closed over.    *)
(* apiKey is TRUE once a key has been typed; location and category hold    *)
(* the text typed, "" while empty.                                         *)
(*                                                                         *)
(* The module states several specifications over the same handlers; they   *)
(* differ in what the user and the browser do:                             *)
(*   Spec      one invocation of handleSearch at a time, every setting of  *)
(*             the form; the persistent store is hidden (no handler reads  *)
(*             it after startup, so it is kept at its initial value);      *)
(*   LiveSpec  Spec, the provider answering and the page timer firing;     *)
(*   RetrySpec Spec, every timer firing, every script and every promise    *)
(*             settling;                                                   *)
(*   CrmSpec   the working set with its CRM edits, the persistent store    *)
(*             and page reloads over searches of the fast path, the        *)
(*             filters of the form left alone;                             *)
(*   EditSpec  CRM edits between searches of both paths, the persistent    *)
(*             store hidden;                                               *)
(*   ClickSpec clicks on the search button while an earlier invocation     *)
(*             still waits for the provider script.                        *)
(***************************************************************************)
EXTENDS Integers, Sequences, FiniteSets, TLC

\* ------------------------------------------------------------ bounds ----
\* pages the paged text search serves for one query
MaxPages == 2
\* raw records the provider serves for one query, over all its pages
MaxRaw == 2
\* provider script elements loading at the same time
MaxScripts == 1
\* setTimeout(handleSearch, 1000) timers scheduled at the same time
MaxTimers == 2

\* ------------------------------------------------- program constants ----
SingleShotCap == 20
DefaultMaxReviews == 10000
TargetClamp == 100
\* seconds between the receipt of a page and the request of the next one
PageDelay == 2

None == <<>>
Some(v) == <<v>>

\* -------------------------------------------------- provider records ----
\* Place 1 and 2 tie on their review count, 1 has a website; place 3 is
\* closed, has no review count and has a website; place 4 has the largest
\* review count and comes back from the paged search without place_id.
Places == 1..4

UserRatingsTotal(p) == IF p = 3 THEN None ELSE IF p = 4 THEN Some(3) ELSE Some(2)
BusinessStatus(p) == IF p = 3 THEN "CLOSED_TEMPORARILY" ELSE "OPERATIONAL"
WebsiteURI(p) == IF p \in {1, 3} THEN Some("w") ELSE None
PhoneNumber(p) == IF p \in {1, 2} THEN Some("t") ELSE None
Rating(p) == IF p = 3 THEN None ELSE Some(4)
PlaceId(p) == IF p = 4 THEN None ELSE Some(p)

\* inputs typed into the form
MinReviewInputs == {0, 2}
MaxReviewInputs == {2, DefaultMaxReviews}
TargetInputs == {-1, 1, 101}
ProviderMessages == {"REQUEST_DENIED"}
LocationInputs == {"m"}
CategoryInputs == {"a", "b"}
\* values of the status select and texts typed into the notes of a lead
StatusInputs == {"Pendiente", "Contactado"}
NotesInputs == {"", "n"}

\* ------------------------------------------------------------ helpers ----
Min(a, b) == IF a < b THEN a ELSE b
Max(a, b) == IF a > b THEN a ELSE b

\* x || 0
OrZero(o) == IF o = None THEN 0 ELSE o[1]

\* Array.prototype.slice(0, end)
Slice(s, end) ==
  LET e == IF end < 0 THEN Max(Len(s) + end, 0) ELSE Min(end, Len(s))
  IN SubSeq(s, 1, e)

\* sequences over S without repetition, of length lo..hi
DistinctSeqs(S, lo, hi) ==
  UNION { { s \in [1..n -> S] : \A i, j \in 1..n : i # j => s[i] # s[j] } : n \in lo..hi }

\* the keys of a lead whose value may be undefined
OptionalKeys == {"website", "phone", "rating", "reviews", "place_id"}
LeadKeys == OptionalKeys \cup {"name", "status", "notes"}

\* JSON.stringify of the working set: a key whose value is undefined is
\* left out of the text
Stringify(leads) ==
  [i \in 1..Len(leads) |->
     [k \in { key \in LeadKeys : key \in OptionalKeys => leads[i][key] # None } |->
        IF k \in OptionalKeys THEN leads[i][k][1] ELSE leads[i][k]]]

\* JSON.parse of a stored working set: a key the text lacks reads undefined
Parse(json) ==
  [i \in 1..Len(json) |->
     [k \in LeadKeys |->
        IF k \in OptionalKeys
        THEN (IF k \in DOMAIN json[i] THEN Some(json[i][k]) ELSE None)
        ELSE json[i][k]]]

\* localStorage without the three keys
EmptyStore == [crm_results |-> None, crm_last_category |-> None, crm_last_location |-> None]

ProFields == {"displayName", "formattedAddress", "location", "id", "googleMapsURI", "businessStatus"}
BusinessFields == ProFields \cup {"websiteURI", "nationalPhoneNumber", "rating", "userRatingCount"}

\* -------------------------------------------------------------- state ----
VARIABLES
  apiKey,                           \* TRUE iff the key field is non-empty
  location, category,               \* form texts
  lastSearchedCategory, lastSearchedLocation,
  searchMode, minReviews, maxReviews, onlyNoWebsite, onlyOperational, targetLeads,
  scriptLoadedRef,                  \* scriptLoadedRef.current
  scriptsLoading,                   \* script elements appended and still loading
  results, status, errorMessage,
  pc,                               \* position of the running handleSearch
  timers,                           \* setTimeout(handleSearch, 1000) timers scheduled
  inFlight,                         \* pipelines started and not yet ended
  storage,                          \* localStorage: crm_results, crm_last_*
  storageReads,                     \* runs of the mount effect since the page loaded
  annotated,                        \* place_ids the running search found annotated
  path,                             \* branch taken at needsComplexFetch
  selectedFields,
  collected, hasNextPage, timer,    \* getAllCandidates: buffer, pagination, page timer
  outstanding,                      \* page requests sent and not yet answered
  candidates,                       \* the value getAllCandidates resolved with
  detailed, settled,                \* detailedPromises: outcomes, indices settled
  finalResults,                     \* finalResults before the sort
  pageLog, seenRaw, elapsed, resolveCount, failedFetches,
  searchByTextCalls, textSearchCalls, fetchFieldsCalls

formVars == <<apiKey, location, category, searchMode, minReviews, maxReviews,
              onlyNoWebsite, onlyOperational, targetLeads>>
scriptVars == <<scriptLoadedRef, scriptsLoading>>
appVars == <<results, status, errorMessage>>
collectorVars == <<collected, hasNextPage, timer, candidates, pageLog, seenRaw,
                   elapsed, resolveCount, textSearchCalls, outstanding>>
enrichVars == <<detailed, settled, failedFetches, fetchFieldsCalls>>
localVars == <<path, selectedFields, finalResults, searchByTextCalls>>
lastVars == <<lastSearchedCategory, lastSearchedLocation>>
storeVars == <<storage, storageReads>>
restVars == <<timers, inFlight, lastVars, storeVars, annotated>>
vars == <<formVars, scriptVars, appVars, pc, restVars, collectorVars,
          enrichVars, localVars>>

\* the locals of an invocation that has not started a pipeline
NoLocals ==
  /\ path = "none" /\ selectedFields = {}
  /\ collected = <<>> /\ hasNextPage = FALSE /\ timer = None /\ candidates = <<>>
  /\ outstanding = 0
  /\ detailed = <<>> /\ settled = {} /\ finalResults = <<>>
  /\ pageLog = <<>> /\ seenRaw = <<>> /\ elapsed = 0 /\ resolveCount = 0
  /\ failedFetches = {}
  /\ searchByTextCalls = 0 /\ textSearchCalls = 0 /\ fetchFieldsCalls = 0

\* the state after the first render and its effects, the store being empty
Init ==
  /\ apiKey = FALSE /\ location = "" /\ category = ""
  /\ lastSearchedCategory = "" /\ lastSearchedLocation = ""
  /\ storage = EmptyStore /\ storageReads = 1
  /\ annotated = {} /\ inFlight = 0
  /\ searchMode = "PRO"
  /\ minReviews = 0 /\ maxReviews = DefaultMaxReviews
  /\ onlyNoWebsite = FALSE /\ onlyOperational = TRUE
  /\ targetLeads = SingleShotCap
  /\ scriptLoadedRef = FALSE /\ scriptsLoading = 0
  /\ results = <<>> /\ status = "idle" /\ errorMessage = <<>>
  /\ pc = "idle" /\ timers = 0
  /\ NoLocals

\* ------------------------------------------------------------ the form ----
FormIdle == pc = "idle" /\ timers = 0

\* useEffect on [minReviews, maxReviews, onlyNoWebsite]: runs in the render
\* after one of the three changed
AutoSwitch(changed, mn, mx, nw) ==
  IF changed /\ (mn > 0 \/ mx < 10000 \/ nw) /\ searchMode = "PRO"
  THEN "BUSINESS" ELSE searchMode

SetApiKey ==
  /\ FormIdle
  /\ ~apiKey
  /\ apiKey' = TRUE
  /\ UNCHANGED <<location, category, searchMode, minReviews, maxReviews,
                 onlyNoWebsite, onlyOperational, targetLeads>>
  /\ UNCHANGED <<scriptVars, appVars, pc, restVars, collectorVars, enrichVars, localVars>>

SetLocation ==
  /\ FormIdle
  /\ location = ""
  /\ \E v \in LocationInputs : location' = v
  /\ UNCHANGED <<apiKey, category, searchMode, minReviews, maxReviews,
                 onlyNoWebsite, onlyOperational, targetLeads>>
  /\ UNCHANGED <<scriptVars, appVars, pc, restVars, collectorVars, enrichVars, localVars>>

SetCategory ==
  /\ FormIdle
  /\ category = ""
  /\ category' = "a"
  /\ UNCHANGED <<apiKey, location, searchMode, minReviews, maxReviews,
                 onlyNoWebsite, onlyOperational, targetLeads>>
  /\ UNCHANGED <<scriptVars, appVars, pc, restVars, collectorVars, enrichVars, localVars>>

\* the category field is overwritten with another text
RetypeCategory ==
  /\ FormIdle
  /\ category # ""
  /\ \E v \in CategoryInputs \ {category} : category' = v
  /\ UNCHANGED <<apiKey, location, searchMode, minReviews, maxReviews,
                 onlyNoWebsite, onlyOperational, targetLeads>>
  /\ UNCHANGED <<scriptVars, appVars, pc, restVars, collectorVars, enrichVars, localVars>>

SetSearchMode ==
  /\ FormIdle
  /\ \E m \in {"PRO", "BUSINESS"} : searchMode' = m
  /\ UNCHANGED <<apiKey, location, category, minReviews, maxReviews,
                 onlyNoWebsite, onlyOperational, targetLeads>>
  /\ UNCHANGED <<scriptVars, appVars, pc, restVars, collectorVars, enrichVars, localVars>>

SetMinReviews ==
  /\ FormIdle
  /\ \E v \in MinReviewInputs :
       /\ minReviews' = v
       /\ searchMode' = AutoSwitch(v # minReviews, v, maxReviews, onlyNoWebsite)
  /\ UNCHANGED <<apiKey, location, category, maxReviews, onlyNoWebsite,
                 onlyOperational, targetLeads>>
  /\ UNCHANGED <<scriptVars, appVars, pc, restVars, collectorVars, enrichVars, localVars>>

SetMaxReviews ==
  /\ FormIdle
  /\ \E v \in MaxReviewInputs :
       /\ maxReviews' = v
       /\ searchMode' = AutoSwitch(v # maxReviews, minReviews, v, onlyNoWebsite)
  /\ UNCHANGED <<apiKey, location, category, minReviews, onlyNoWebsite,
                 onlyOperational, targetLeads>>
  /\ UNCHANGED <<scriptVars, appVars, pc, restVars, collectorVars, enrichVars, localVars>>

SetOnlyNoWebsite ==
  /\ FormIdle
  /\ \E v \in BOOLEAN :
       /\ onlyNoWebsite' = v
       /\ searchMode' = AutoSwitch(v # onlyNoWebsite, minReviews, maxReviews, v)
  /\ UNCHANGED <<apiKey, location, category, minReviews, maxReviews,
                 onlyOperational, targetLeads>>
  /\ UNCHANGED <<scriptVars, appVars, pc, restVars, collectorVars, enrichVars, localVars>>

SetOnlyOperational ==
  /\ FormIdle
  /\ \E v \in BOOLEAN : onlyOperational' = v
  /\ UNCHANGED <<apiKey, location, category, searchMode, minReviews, maxReviews,
                 onlyNoWebsite, targetLeads>>
  /\ UNCHANGED <<scriptVars, appVars, pc, restVars, collectorVars, enrichVars, localVars>>

SetTargetLeads ==
  /\ FormIdle
  /\ \E v \in TargetInputs : targetLeads' = Min(TargetClamp, v)
  /\ UNCHANGED <<apiKey, location, category, searchMode, minReviews, maxReviews,
                 onlyNoWebsite, onlyOperational>>
  /\ UNCHANGED <<scriptVars, appVars, pc, restVars, collectorVars, enrichVars, localVars>>

\* ------------------------------------------------- the provider script ----
\* loadGoogleMaps, called with the script not yet loaded: appends a script
LoadGoogleMaps ==
  IF scriptLoadedRef
  THEN UNCHANGED <<scriptsLoading, errorMessage>>
  ELSE IF ~apiKey
  THEN /\ errorMessage' = <<"Please enter a valid Google Maps API Key">>
       /\ UNCHANGED scriptsLoading
  ELSE /\ scriptsLoading < MaxScripts
       /\ scriptsLoading' = scriptsLoading + 1
       /\ UNCHANGED errorMessage

\* script.onload
ScriptOnload ==
  /\ scriptsLoading > 0
  /\ scriptsLoading' = scriptsLoading - 1
  /\ scriptLoadedRef' = TRUE
  /\ errorMessage' = <<>>
  /\ UNCHANGED <<results, status>>
  /\ UNCHANGED <<formVars, pc, restVars, collectorVars, enrichVars, localVars>>

\* script.onerror
ScriptOnerror ==
  /\ scriptsLoading > 0
  /\ scriptsLoading' = scriptsLoading - 1
  /\ errorMessage' = <<"Failed to load Google Maps API. Check your API Key.">>
  /\ UNCHANGED <<scriptLoadedRef, results, status>>
  /\ UNCHANGED <<formVars, pc, restVars, collectorVars, enrichVars, localVars>>

\* ------------------------------------------------------- handleSearch ----
\* NeedsComplexFetch with the single-shot cap compared by >=
NeedsComplexFetchOffByOne ==
  \/ targetLeads >= 20
  \/ minReviews > 0
  \/ maxReviews < 10000
  \/ onlyNoWebsite
  \/ ~onlyOperational

NeedsComplexFetch ==
  \/ targetLeads > 20
  \/ minReviews > 0
  \/ maxReviews < 10000
  \/ onlyNoWebsite
  \/ ~onlyOperational

SelectedFields == IF searchMode = "PRO" THEN ProFields ELSE BusinessFields

\* the place_ids of the leads that carry a CRM annotation
Annotated(leads) ==
  { leads[i].place_id : i \in { j \in 1..Len(leads) :
                                  leads[j].status # "Pendiente" \/ leads[j].notes # "" } }

\* from setStatus('loading') to the first await of the chosen path.  The
\* locals of one pipeline are modelled: an invocation that gets here while
\* the pipeline of another one is in flight writes the state of the
\* component and is counted in inFlight, its own pipeline is not followed.
StartPipeline ==
  /\ status' = "loading"
  /\ results' = <<>>
  /\ errorMessage' = <<>>
  /\ inFlight' = inFlight + 1
  /\ IF pc = "idle"
     THEN /\ selectedFields' = SelectedFields
          /\ annotated' = Annotated(results)
          /\ IF ~NeedsComplexFetch
             THEN /\ path' = "simple"
                  /\ pc' = "simpleImport"
                  /\ UNCHANGED <<textSearchCalls, outstanding>>
             ELSE /\ path' = "complex"
                  /\ pc' = "collecting"
                  /\ textSearchCalls' = textSearchCalls + 1
                  /\ outstanding' = outstanding + 1
     ELSE UNCHANGED <<selectedFields, annotated, path, pc, textSearchCalls, outstanding>>
  /\ UNCHANGED <<collected, hasNextPage, timer, candidates, pageLog, seenRaw,
                 elapsed, resolveCount>>
  /\ UNCHANGED <<enrichVars, finalResults, searchByTextCalls>>
  /\ UNCHANGED scriptVars

\* the body of handleSearch up to its first await or return, with `pending`
\* timers scheduled besides the invocation that runs
HandleSearchBody(pending) ==
  /\ UNCHANGED <<formVars, lastVars, storeVars>>
  /\ IF ~apiKey
     THEN /\ errorMessage' = <<"Please enter an API Key first.">>
          /\ timers' = pending
          /\ UNCHANGED <<scriptVars, results, status, pc, inFlight, annotated,
                         collectorVars, enrichVars, localVars>>
     ELSE IF ~scriptLoadedRef
     THEN /\ LoadGoogleMaps
          /\ pending < MaxTimers
          /\ timers' = pending + 1
          /\ UNCHANGED <<scriptLoadedRef, results, status, pc, inFlight, annotated,
                         collectorVars, enrichVars, localVars>>
     ELSE IF location = "" \/ category = ""
     THEN /\ errorMessage' = <<"Please fill in both Location and Business Category.">>
          /\ timers' = pending
          /\ UNCHANGED <<scriptVars, results, status, pc, inFlight, annotated,
                         collectorVars, enrichVars, localVars>>
     ELSE /\ StartPipeline
          /\ timers' = pending

\* a click on the search button (disabled while status is 'loading'), no
\* earlier invocation pending
HandleSearch ==
  /\ FormIdle
  /\ status # "loading"
  /\ HandleSearchBody(timers)

\* a click on the search button whenever it is enabled, also while an
\* earlier invocation waits for the provider script
ClickSearch ==
  /\ status # "loading"
  /\ pc # "done"
  /\ HandleSearchBody(timers)

\* setTimeout(handleSearch, 1000) fires
RetryTimer ==
  /\ timers > 0
  /\ pc # "done"
  /\ HandleSearchBody(timers - 1)

\* --------------------------------------------------- getAllCandidates ----
\* ValidCandidate with the lower bound compared by <=
ValidCandidateStrictMin(p) ==
  LET reviewCount == OrZero(UserRatingsTotal(p))
      isOperational == BusinessStatus(p) = "OPERATIONAL"
  IN IF onlyOperational /\ ~isOperational THEN FALSE
     ELSE IF reviewCount <= minReviews THEN FALSE
     ELSE IF reviewCount > maxReviews THEN FALSE
     ELSE TRUE

\* the filter callback of validCandidates, on the raw record of place p
ValidCandidate(p) ==
  LET reviewCount == OrZero(UserRatingsTotal(p))
      isOperational == BusinessStatus(p) = "OPERATIONAL"
  IN IF onlyOperational /\ ~isOperational THEN FALSE
     ELSE IF reviewCount < minReviews THEN FALSE
     ELSE IF reviewCount > maxReviews THEN FALSE
     ELSE TRUE

\* resolve(value): settles the promise the handler awaits, once
Resolve(value) ==
  /\ resolveCount' = resolveCount + 1
  /\ IF pc = "collecting"
     THEN candidates' = value /\ pc' = "complexImport"
     ELSE UNCHANGED <<candidates, pc>>

\* OnPage asking for the next page also when the target is just reached
OnPageTargetOffByOne(st, page, more) ==
  /\ pageLog' = Append(pageLog, st)
  /\ elapsed' = 0
  /\ IF st = "OK"
     THEN LET validCandidates == SelectSeq(page, ValidCandidate)
              newCollected == collected \o validCandidates
          IN /\ collected' = newCollected
             /\ seenRaw' = seenRaw \o page
             /\ hasNextPage' = more
             /\ IF Len(newCollected) <= targetLeads /\ more
                THEN /\ timer' = Some(PageDelay)
                     /\ UNCHANGED <<candidates, pc, resolveCount>>
                ELSE /\ Resolve(Slice(newCollected, targetLeads))
                     /\ UNCHANGED timer
     ELSE /\ Resolve(collected)
          /\ UNCHANGED <<collected, seenRaw, hasNextPage, timer>>

\* OnPage with a page timer of no delay
OnPageNoDelay(st, page, more) ==
  /\ pageLog' = Append(pageLog, st)
  /\ elapsed' = 0
  /\ IF st = "OK"
     THEN LET validCandidates == SelectSeq(page, ValidCandidate)
              newCollected == collected \o validCandidates
          IN /\ collected' = newCollected
             /\ seenRaw' = seenRaw \o page
             /\ hasNextPage' = more
             /\ IF Len(newCollected) < targetLeads /\ more
                THEN /\ timer' = Some(0)
                     /\ UNCHANGED <<candidates, pc, resolveCount>>
                ELSE /\ Resolve(Slice(newCollected, targetLeads))
                     /\ UNCHANGED timer
     ELSE /\ Resolve(collected)
          /\ UNCHANGED <<collected, seenRaw, hasNextPage, timer>>

\* OnPage waiting for a further page after a page of zero results
OnPageZeroWaits(st, page, more) ==
  /\ pageLog' = Append(pageLog, st)
  /\ elapsed' = 0
  /\ IF st = "OK"
     THEN LET validCandidates == SelectSeq(page, ValidCandidate)
              newCollected == collected \o validCandidates
          IN /\ collected' = newCollected
             /\ seenRaw' = seenRaw \o page
             /\ hasNextPage' = more
             /\ IF Len(newCollected) < targetLeads /\ more
                THEN /\ timer' = Some(PageDelay)
                     /\ UNCHANGED <<candidates, pc, resolveCount>>
                ELSE /\ Resolve(Slice(newCollected, targetLeads))
                     /\ UNCHANGED timer
     ELSE IF st = "ZERO_RESULTS"
     THEN /\ timer' = Some(PageDelay)
          /\ UNCHANGED <<collected, seenRaw, hasNextPage, candidates, pc, resolveCount>>
     ELSE /\ Resolve(collected)
          /\ UNCHANGED <<collected, seenRaw, hasNextPage, timer>>

\* OnPage returning nothing when a page is answered with an error
OnPageErrorDrops(st, page, more) ==
  /\ pageLog' = Append(pageLog, st)
  /\ elapsed' = 0
  /\ IF st = "OK"
     THEN LET validCandidates == SelectSeq(page, ValidCandidate)
              newCollected == collected \o validCandidates
          IN /\ collected' = newCollected
             /\ seenRaw' = seenRaw \o page
             /\ hasNextPage' = more
             /\ IF Len(newCollected) < targetLeads /\ more
                THEN /\ timer' = Some(PageDelay)
                     /\ UNCHANGED <<candidates, pc, resolveCount>>
                ELSE /\ Resolve(Slice(newCollected, targetLeads))
                     /\ UNCHANGED timer
     ELSE IF st = "ZERO_RESULTS"
     THEN /\ Resolve(collected)
          /\ UNCHANGED <<collected, seenRaw, hasNextPage, timer>>
     ELSE /\ Resolve(<<>>)
          /\ UNCHANGED <<collected, seenRaw, hasNextPage, timer>>

\* the callback of service.textSearch, on the answer to one page request
OnPage(st, page, more) ==
  /\ pageLog' = Append(pageLog, st)
  /\ elapsed' = 0
  /\ IF st = "OK"
     THEN LET validCandidates == SelectSeq(page, ValidCandidate)
              newCollected == collected \o validCandidates
          IN /\ collected' = newCollected
             /\ seenRaw' = seenRaw \o page
             /\ hasNextPage' = more
             /\ IF Len(newCollected) < targetLeads /\ more
                THEN /\ timer' = Some(PageDelay)
                     /\ UNCHANGED <<candidates, pc, resolveCount>>
                ELSE /\ Resolve(Slice(newCollected, targetLeads))
                     /\ UNCHANGED timer
     ELSE /\ Resolve(collected)
          /\ UNCHANGED <<collected, seenRaw, hasNextPage, timer>>

\* the provider answers the outstanding page request
PageCallback ==
  /\ outstanding > 0
  /\ outstanding' = outstanding - 1
  /\ \/ \E page \in DistinctSeqs(Places, 1, MaxRaw - Len(seenRaw)) :
          \E more \in BOOLEAN :
            /\ more => (Len(pageLog) + 1 < MaxPages /\ Len(seenRaw) + Len(page) < MaxRaw)
            /\ OnPage("OK", page, more)
     \/ OnPage("ZERO_RESULTS", <<>>, FALSE)
     \/ OnPage("ERROR", <<>>, FALSE)
  /\ UNCHANGED textSearchCalls
  /\ UNCHANGED <<formVars, scriptVars, appVars, restVars, enrichVars, localVars>>

\* one second passes while the page timer runs
Tick ==
  /\ timer # None
  /\ timer[1] > 0
  /\ timer' = Some(timer[1] - 1)
  /\ elapsed' = elapsed + 1
  /\ UNCHANGED <<collected, hasNextPage, candidates, pageLog, seenRaw, resolveCount,
                 textSearchCalls, outstanding>>
  /\ UNCHANGED <<formVars, scriptVars, appVars, pc, restVars, enrichVars, localVars>>

\* the page timer fires: pagination.nextPage()
NextPage ==
  /\ timer # None
  /\ timer[1] = 0
  /\ timer' = None
  /\ outstanding' = outstanding + 1
  /\ textSearchCalls' = textSearchCalls + 1
  /\ UNCHANGED <<collected, hasNextPage, candidates, pageLog, seenRaw, elapsed, resolveCount>>
  /\ UNCHANGED <<formVars, scriptVars, appVars, pc, restVars, enrichVars, localVars>>

\* ------------------------------------------------- leads and ranking ----
\* a field of a Place object: defined only if it was in the field mask
Fetched(field, value) == IF field \in selectedFields THEN value ELSE None

\* the map callback of the fast path, on the Place p of searchByText
SimpleLead(p) ==
  [ name     |-> p,
    website  |-> IF searchMode = "PRO" THEN None ELSE Fetched("websiteURI", WebsiteURI(p)),
    phone    |-> IF searchMode = "PRO" THEN None ELSE Fetched("nationalPhoneNumber", PhoneNumber(p)),
    rating   |-> IF searchMode = "PRO" THEN None ELSE Fetched("rating", Rating(p)),
    reviews  |-> IF searchMode = "PRO" THEN None ELSE Fetched("userRatingCount", UserRatingsTotal(p)),
    place_id |-> Some(p),
    status   |-> "Pendiente",
    notes    |-> "" ]

\* the filter callback of the fast path
SimpleKeep(p) ==
  IF onlyOperational /\ Fetched("businessStatus", Some(BusinessStatus(p))) # Some("OPERATIONAL")
  THEN FALSE ELSE TRUE

\* DetailLead taking rating and review count from the candidate in both tiers
DetailLeadLegacyRatings(c) ==
  [ name     |-> c,
    website  |-> IF searchMode = "PRO" THEN None ELSE Fetched("websiteURI", WebsiteURI(c)),
    phone    |-> IF searchMode = "PRO" THEN None ELSE Fetched("nationalPhoneNumber", PhoneNumber(c)),
    rating   |-> Rating(c),
    reviews  |-> UserRatingsTotal(c),
    place_id |-> PlaceId(c),
    status   |-> "Pendiente",
    notes    |-> "" ]

\* DetailLead taking over the annotations of a lead of the previous working
\* set with the same place_id
DetailLeadKeepsAnnotations(c) ==
  [ name     |-> c,
    website  |-> IF searchMode = "PRO" THEN None ELSE Fetched("websiteURI", WebsiteURI(c)),
    phone    |-> IF searchMode = "PRO" THEN None ELSE Fetched("nationalPhoneNumber", PhoneNumber(c)),
    rating   |-> IF searchMode = "PRO" THEN None ELSE Rating(c),
    reviews  |-> IF searchMode = "PRO" THEN None ELSE UserRatingsTotal(c),
    place_id |-> PlaceId(c),
    status   |-> IF PlaceId(c) \in annotated THEN "Contactado" ELSE "Pendiente",
    notes    |-> "" ]

\* the record a detail fetch of candidate c returns
DetailLead(c) ==
  [ name     |-> c,
    website  |-> IF searchMode = "PRO" THEN None ELSE Fetched("websiteURI", WebsiteURI(c)),
    phone    |-> IF searchMode = "PRO" THEN None ELSE Fetched("nationalPhoneNumber", PhoneNumber(c)),
    rating   |-> IF searchMode = "PRO" THEN None ELSE Rating(c),
    reviews  |-> IF searchMode = "PRO" THEN None ELSE UserRatingsTotal(c),
    place_id |-> PlaceId(c),
    status   |-> "Pendiente",
    notes    |-> "" ]

\* the outcome of the async callback of detailedPromises after fetchFields
\* fulfilled: null when the post-fetch filter drops the candidate
DetailOutcome(c) ==
  IF onlyNoWebsite /\ Fetched("websiteURI", WebsiteURI(c)) # None
  THEN None
  ELSE Some(DetailLead(c))

\* InsertLead placing x in front of the leads of equal review count
InsertLeadBeforeTies(x, s) ==
  LET notLarger == { j \in 1..Len(s) : OrZero(s[j].reviews) <= OrZero(x.reviews) }
      k == IF notLarger = {} THEN Len(s) + 1
           ELSE CHOOSE j \in notLarger : \A i \in notLarger : j <= i
  IN SubSeq(s, 1, k - 1) \o <<x>> \o SubSeq(s, k, Len(s))

\* b.reviews || 0 compared with a.reviews || 0: x goes behind every lead
\* that has at least its review count (Array.prototype.sort is stable)
InsertLead(x, s) ==
  LET smaller == { j \in 1..Len(s) : OrZero(s[j].reviews) < OrZero(x.reviews) }
      k == IF smaller = {} THEN Len(s) + 1
           ELSE CHOOSE j \in smaller : \A i \in smaller : j <= i
  IN SubSeq(s, 1, k - 1) \o <<x>> \o SubSeq(s, k, Len(s))

RECURSIVE SortByReviews(_)
SortByReviews(s) ==
  IF s = <<>> THEN <<>>
  ELSE InsertLead(s[Len(s)], SortByReviews(SubSeq(s, 1, Len(s) - 1)))

\* the non-null entries of detailedResults, in order
RECURSIVE NonNull(_)
NonNull(d) ==
  IF d = <<>> THEN <<>>
  ELSE IF d[1] = None THEN NonNull(Tail(d))
  ELSE <<d[1][1]>> \o NonNull(Tail(d))

\* (places || []).filter(...).map(...) of the fast path
FastPathResults(places) ==
  LET kept == SelectSeq(places, SimpleKeep)
  IN [i \in 1..Len(kept) |-> SimpleLead(kept[i])]

\* lines 270-276: sort, publish, report success
Publish(final) ==
  /\ finalResults' = final
  /\ results' = SortByReviews(final)
  /\ lastSearchedCategory' = category
  /\ lastSearchedLocation' = location
  /\ status' = "success"
  /\ UNCHANGED errorMessage
  /\ pc' = "done"
  /\ inFlight' = inFlight - 1
  /\ UNCHANGED <<timers, storageReads, annotated>>

\* Catch taking the failure for a search without results
CatchReportsEmpty(message) ==
  /\ status' = "success"
  /\ errorMessage' = <<>>
  /\ UNCHANGED <<results, finalResults>>
  /\ pc' = "done"
  /\ inFlight' = inFlight - 1
  /\ UNCHANGED <<timers, lastVars, storeVars, annotated>>

\* the catch block
Catch(message) ==
  /\ status' = "error"
  /\ errorMessage' = <<"Search failed: ", message>>
  /\ UNCHANGED <<results, finalResults>>
  /\ pc' = "done"
  /\ inFlight' = inFlight - 1
  /\ UNCHANGED <<timers, lastVars, storeVars, annotated>>

\* SaveEffect writing the working set and leaving the stored search terms
SaveEffectResultsOnly ==
  IF Len(results') > 0
  THEN storage' = [storage EXCEPT !.crm_results = Some(Stringify(results'))]
  ELSE UNCHANGED storage

\* SaveEffect without the test of results.length
SaveEffectAlways ==
  storage' = [crm_results |-> Some(Stringify(results')),
              crm_last_category |-> Some(lastSearchedCategory'),
              crm_last_location |-> Some(lastSearchedLocation')]

\* the effect on [results, lastSearchedCategory, lastSearchedLocation],
\* which runs in the render after one of the three changed
SaveEffect ==
  IF Len(results') > 0
  THEN storage' = [crm_results |-> Some(Stringify(results')),
                   crm_last_category |-> Some(lastSearchedCategory'),
                   crm_last_location |-> Some(lastSearchedLocation')]
  ELSE UNCHANGED storage

\* ---------------------------------------------------- the fast path ----
\* importLibrary resolves; Place.searchByText is called
SimpleImportResolved ==
  /\ pc = "simpleImport"
  /\ pc' = "simpleSearch"
  /\ searchByTextCalls' = searchByTextCalls + 1
  /\ UNCHANGED <<path, selectedFields, finalResults>>
  /\ UNCHANGED <<formVars, scriptVars, appVars, restVars, collectorVars, enrichVars>>

\* searchByText resolves with places (an empty sequence also stands for a
\* missing places property: places || []); the handler runs to its end
SearchByTextResolves ==
  /\ pc = "simpleSearch"
  /\ \E places \in DistinctSeqs(Places, 0, MaxRaw) :
       Publish(FastPathResults(places))
  /\ UNCHANGED <<path, selectedFields, searchByTextCalls>>
  /\ UNCHANGED <<formVars, scriptVars, collectorVars, enrichVars>>

\* SearchByTextResolves with the render that follows it
SearchByTextResolvedSaved == SearchByTextResolves /\ SaveEffect

\* SearchByTextResolves, the persistent store hidden
SearchByTextResolved == SearchByTextResolves /\ UNCHANGED storage

\* searchByText rejects
SearchByTextRejected ==
  /\ pc = "simpleSearch"
  /\ \E m \in ProviderMessages : Catch(m)
  /\ UNCHANGED <<path, selectedFields, searchByTextCalls>>
  /\ UNCHANGED <<formVars, scriptVars, collectorVars, enrichVars>>

\* importLibrary rejects, on either path
ImportRejected ==
  /\ pc \in {"simpleImport", "complexImport"}
  /\ \E m \in ProviderMessages : Catch(m)
  /\ UNCHANGED <<path, selectedFields, searchByTextCalls>>
  /\ UNCHANGED <<formVars, scriptVars, collectorVars, enrichVars>>

\* ------------------------------------------------- detailedPromises ----
Fetching == { i \in 1..Len(candidates) : PlaceId(candidates[i]) # None }

\* importLibrary resolves; candidates.map starts every callback, each runs
\* to its return null or to its await of fetchFields
ComplexImportResolved ==
  /\ pc = "complexImport"
  /\ pc' = "enrich"
  /\ detailed' = [i \in 1..Len(candidates) |-> None]
  /\ settled' = (1..Len(candidates)) \ Fetching
  /\ fetchFieldsCalls' = fetchFieldsCalls + Cardinality(Fetching)
  /\ UNCHANGED failedFetches
  /\ UNCHANGED <<formVars, scriptVars, appVars, restVars, collectorVars, localVars>>

\* fetchFields of candidate i fulfils
FetchFulfilled ==
  /\ pc = "enrich"
  /\ \E i \in (1..Len(candidates)) \ settled :
       /\ detailed' = [detailed EXCEPT ![i] = DetailOutcome(candidates[i])]
       /\ settled' = settled \cup {i}
  /\ UNCHANGED <<failedFetches, fetchFieldsCalls>>
  /\ UNCHANGED <<formVars, scriptVars, appVars, pc, restVars, collectorVars, localVars>>

\* FetchRejected without the try/catch: the rejection reaches the outer catch
FetchRejectedAborts ==
  /\ pc = "enrich"
  /\ \E i \in (1..Len(candidates)) \ settled :
       /\ settled' = settled \cup {i}
       /\ failedFetches' = failedFetches \cup {i}
  /\ \E m \in ProviderMessages : Catch(m)
  /\ UNCHANGED <<detailed, fetchFieldsCalls>>
  /\ UNCHANGED <<path, selectedFields, searchByTextCalls>>
  /\ UNCHANGED <<formVars, scriptVars, collectorVars>>

\* fetchFields of candidate i rejects: the catch returns null
FetchRejected ==
  /\ pc = "enrich"
  /\ \E i \in (1..Len(candidates)) \ settled :
       /\ detailed' = [detailed EXCEPT ![i] = None]
       /\ settled' = settled \cup {i}
       /\ failedFetches' = failedFetches \cup {i}
  /\ UNCHANGED fetchFieldsCalls
  /\ UNCHANGED <<formVars, scriptVars, appVars, pc, restVars, collectorVars, localVars>>

\* AllSettles going on with the outcomes at hand, not awaiting the batch
AllSettlesEarly ==
  /\ pc = "enrich"
  /\ Publish(NonNull(detailed))
  /\ UNCHANGED <<path, selectedFields, searchByTextCalls>>
  /\ UNCHANGED <<formVars, scriptVars, collectorVars, enrichVars>>

\* Promise.all fulfils once every promise has; the handler runs to its end
AllSettles ==
  /\ pc = "enrich"
  /\ settled = 1..Len(candidates)
  /\ Publish(NonNull(detailed))
  /\ UNCHANGED <<path, selectedFields, searchByTextCalls>>
  /\ UNCHANGED <<formVars, scriptVars, collectorVars, enrichVars>>

\* AllSettles, the persistent store hidden
AllSettled == AllSettles /\ UNCHANGED storage

\* ------------------------------------------------------ the CRM table ----
\* results.findIndex(r => r.place_id === place.place_id), from 1
OriginalIndex(place) ==
  LET same == { j \in 1..Len(results) : results[j].place_id = place.place_id }
  IN CHOOSE j \in same : \A k \in same : j <= k

\* the status select of row `row` of the table changes to newStatus:
\* handleUpdateStatus(originalIndex, newStatus).  The rows are those of
\* filteredResults, which are leads of results for every filter text
StatusEdit(row, newStatus) ==
  /\ pc = "idle"
  /\ LET idx == OriginalIndex(results[row])
     IN results' = [results EXCEPT ![idx].status = newStatus]
  /\ UNCHANGED <<status, errorMessage, timers, inFlight, lastVars, storageReads, annotated>>
  /\ UNCHANGED <<formVars, scriptVars, pc, collectorVars, enrichVars, localVars>>

\* handleUpdateStatus of a row of the table
UpdatesStatus ==
  \E row \in 1..Len(results) : \E newStatus \in StatusInputs :
    StatusEdit(row, newStatus)

\* UpdatesStatus with the render that follows it
HandleUpdateStatusSaved == UpdatesStatus /\ SaveEffect

\* UpdatesStatus, the persistent store hidden
HandleUpdateStatus == UpdatesStatus /\ UNCHANGED storage

\* the notes of row `row` of the table are edited to newNotes:
\* handleUpdateNotes(originalIndex, newNotes)
NotesEdit(row, newNotes) ==
  /\ pc = "idle"
  /\ LET idx == OriginalIndex(results[row])
     IN results' = [results EXCEPT ![idx].notes = newNotes]
  /\ UNCHANGED <<status, errorMessage, timers, inFlight, lastVars, storageReads, annotated>>
  /\ UNCHANGED <<formVars, scriptVars, pc, collectorVars, enrichVars, localVars>>

\* handleUpdateNotes of a row of the table
UpdatesNotes ==
  \E row \in 1..Len(results) : \E newNotes \in NotesInputs :
    NotesEdit(row, newNotes)

\* UpdatesNotes with the render that follows it
HandleUpdateNotesSaved == UpdatesNotes /\ SaveEffect

\* UpdatesNotes, the persistent store hidden
HandleUpdateNotes == UpdatesNotes /\ UNCHANGED storage

\* ------------------------------------------------------- page reload ----
\* a text of the store as the mount effect takes it: '' when missing
SavedText(saved) == IF saved # None /\ saved[1] # "" THEN saved[1] ELSE ""

\* the page is loaded again: the state of useState and useRef is new, the
\* mount effect reads the store, the save effect runs in the next render
Reload ==
  /\ FormIdle
  /\ storageReads' = 1
  /\ results' = IF storage.crm_results # None THEN Parse(storage.crm_results[1]) ELSE <<>>
  /\ lastSearchedCategory' = SavedText(storage.crm_last_category)
  /\ category' = SavedText(storage.crm_last_category)
  /\ lastSearchedLocation' = SavedText(storage.crm_last_location)
  /\ location' = SavedText(storage.crm_last_location)
  /\ SaveEffect
  /\ apiKey' = FALSE /\ searchMode' = "PRO"
  /\ minReviews' = 0 /\ maxReviews' = DefaultMaxReviews
  /\ onlyNoWebsite' = FALSE /\ onlyOperational' = TRUE
  /\ targetLeads' = SingleShotCap
  /\ scriptLoadedRef' = FALSE /\ scriptsLoading' = 0
  /\ status' = "idle" /\ errorMessage' = <<>>
  /\ UNCHANGED <<pc, timers, inFlight, annotated>>
  /\ UNCHANGED <<collectorVars, enrichVars, localVars>>

\* handleSearch returns; its locals are gone
Return ==
  /\ pc = "done"
  /\ pc' = "idle"
  /\ path' = "none" /\ selectedFields' = {}
  /\ collected' = <<>> /\ hasNextPage' = FALSE /\ timer' = None /\ candidates' = <<>>
  /\ outstanding' = 0
  /\ detailed' = <<>> /\ settled' = {} /\ finalResults' = <<>>
  /\ pageLog' = <<>> /\ seenRaw' = <<>> /\ elapsed' = 0 /\ resolveCount' = 0
  /\ failedFetches' = {}
  /\ searchByTextCalls' = 0 /\ textSearchCalls' = 0 /\ fetchFieldsCalls' = 0
  /\ annotated' = {}
  /\ UNCHANGED <<formVars, scriptVars, appVars, timers, inFlight, lastVars, storeVars>>

Next ==
  \/ SetApiKey \/ SetLocation \/ SetCategory \/ SetSearchMode
  \/ SetMinReviews \/ SetMaxReviews \/ SetOnlyNoWebsite \/ SetOnlyOperational
  \/ SetTargetLeads
  \/ ScriptOnload \/ ScriptOnerror
  \/ HandleSearch \/ RetryTimer
  \/ PageCallback \/ Tick \/ NextPage
  \/ SimpleImportResolved \/ SearchByTextResolved \/ SearchByTextRejected
  \/ ImportRejected
  \/ ComplexImportResolved \/ FetchFulfilled \/ FetchRejected \/ AllSettled
  \/ Return

Spec == Init /\ [][Next]_vars

\* the provider answers every page request and the page timer runs and fires
LiveSpec ==
  Spec /\ WF_vars(PageCallback) /\ WF_vars(Tick) /\ WF_vars(NextPage)

\* a step of the pipeline in flight
PipelineStep ==
  \/ PageCallback \/ Tick \/ NextPage
  \/ SimpleImportResolved \/ SearchByTextResolved \/ SearchByTextRejected
  \/ ImportRejected
  \/ ComplexImportResolved \/ FetchFulfilled \/ FetchRejected \/ AllSettled
  \/ Return

\* every scheduled timer fires, every script appended to the document ends
\* in onload or in onerror, every promise of the pipeline settles
RetrySpec ==
  /\ Spec
  /\ WF_vars(RetryTimer)
  /\ WF_vars(ScriptOnload \/ ScriptOnerror)
  /\ WF_vars(PipelineStep)

\* the fast path with clicks at any time the button is enabled; the
\* persistent store is hidden
ClickNext ==
  \/ SetApiKey \/ SetLocation \/ SetCategory
  \/ ScriptOnload \/ ScriptOnerror
  \/ ClickSearch \/ RetryTimer
  \/ SimpleImportResolved \/ SearchByTextResolved \/ SearchByTextRejected
  \/ ImportRejected
  \/ Return

ClickSpec == Init /\ [][ClickNext]_vars

\* the working set, its CRM edits and the persistent store over searches
\* of the fast path and page reloads; the filters of the form stay as they
\* are at startup
CrmNext ==
  \/ SetApiKey \/ SetLocation \/ SetCategory \/ RetypeCategory
  \/ ScriptOnload \/ ScriptOnerror
  \/ HandleSearch \/ RetryTimer
  \/ SimpleImportResolved \/ SearchByTextResolvedSaved \/ SearchByTextRejected
  \/ ImportRejected
  \/ HandleUpdateStatusSaved \/ HandleUpdateNotesSaved
  \/ Reload
  \/ Return

CrmSpec == Init /\ [][CrmNext]_vars

\* CRM edits between searches of both paths; of the filters only the
\* operational one changes, and the persistent store is hidden
EditNext ==
  \/ SetApiKey \/ SetLocation \/ SetCategory \/ SetOnlyOperational
  \/ ScriptOnload \/ ScriptOnerror
  \/ HandleSearch \/ RetryTimer
  \/ PageCallback \/ Tick \/ NextPage
  \/ SimpleImportResolved \/ SearchByTextResolved \/ SearchByTextRejected
  \/ ImportRejected
  \/ ComplexImportResolved \/ FetchFulfilled \/ FetchRejected \/ AllSettled
  \/ HandleUpdateStatus \/ HandleUpdateNotes
  \/ Return

EditSpec == Init /\ [][EditNext]_vars

TypeOK ==
  /\ timers \in 0..MaxTimers
  /\ pc \in {"idle", "simpleImport", "simpleSearch", "collecting", "complexImport", "enrich", "done"}
  /\ status \in {"idle", "loading", "success", "error"}
  /\ path \in {"none", "simple", "complex"}

\* ============================================================ claims ====
Completed == pc = "done" /\ status = "success"

\* C1: after a completed search no two leads of the working set share
\* their externalId (place_id).
C1_DistinctExternalIds ==
  status = "success" =>
    \A i, j \in 1..Len(results) :
      (i # j /\ results[i].place_id # None) => results[i].place_id # results[j].place_id

\* C2: on the complex path, an error status on the first page request ends
\* the pipeline with status 'error' and the provider's message, never with
\* 'success'.
C2_FirstPageErrorIsFatal ==
  (pc = "done" /\ path = "complex" /\ pageLog = <<"ERROR">>) =>
    /\ status = "error"
    /\ \E m \in ProviderMessages : errorMessage = <<"Search failed: ", m>>

\* C3: on the complex path with onlyNoWebsite set, in either tier, no lead
\* of the final working set is a business whose provider record has a
\* website.
C3_NoLeadHasWebsite ==
  (Completed /\ path = "complex" /\ onlyNoWebsite) =>
    \A i \in 1..Len(results) :
      results[i].place_id # None => WebsiteURI(results[i].place_id[1]) = None

\* C4: the complex path is taken iff targetCount > 20 or minReviews > 0 or
\* maxReviews < 10000 or excludeHasWebsite or not operationalOnly; the
\* simple path makes exactly one single-shot search call and no paged
\* search or detail fetch call; the field tier depends only on dataTier.
C4_PathFromConfiguration ==
  /\ path # "none" =>
       (path = "complex" <=>
          (targetLeads > 20 \/ minReviews > 0 \/ maxReviews < 10000
             \/ onlyNoWebsite = TRUE \/ onlyOperational = FALSE))
  /\ path = "simple" =>
       /\ textSearchCalls = 0 /\ fetchFieldsCalls = 0
       /\ searchByTextCalls <= 1
       /\ (pc = "simpleSearch" \/ Completed) => searchByTextCalls = 1
  /\ path # "none" =>
       /\ searchMode = "PRO" =>
            selectedFields = {"displayName", "formattedAddress", "location", "id",
                              "googleMapsURI", "businessStatus"}
       /\ searchMode = "BUSINESS" =>
            selectedFields = {"displayName", "formattedAddress", "websiteURI",
                              "nationalPhoneNumber", "rating", "userRatingCount",
                              "location", "id", "googleMapsURI", "businessStatus"}

C4_Witness ==
  /\ Completed /\ path = "simple" /\ searchMode = "BUSINESS"
  /\ Len(results) = 2 /\ searchByTextCalls = 1

\* the bounds of the configuration, stated on the raw record of place p
WithinBounds(p) ==
  LET count == IF UserRatingsTotal(p) = None THEN 0 ELSE UserRatingsTotal(p)[1]
  IN /\ onlyOperational => BusinessStatus(p) = "OPERATIONAL"
     /\ count >= minReviews
     /\ count <= maxReviews

\* C5: the prefilter rejects a raw candidate iff it is not operational
\* while operationalOnly is set, or its review count (missing as 0) is
\* below minReviews or above maxReviews: the collector's buffer is exactly
\* the raw candidates received that are within the bounds, in order.
C5_PrefilterIffBounds ==
  collected = SelectSeq(seenRaw, WithinBounds)

C5_Witness ==
  /\ pc = "complexImport" /\ minReviews > 0 /\ maxReviews < 10000 /\ ~onlyOperational
  /\ Len(seenRaw) = 2 /\ Len(collected) = 1

\* C6: after a successful search the working set is in non-increasing
\* order of reviewCount (missing as 0), and leads of equal reviewCount keep
\* their order of discovery.
C6_RankedStable ==
  /\ status = "success" =>
       \A i \in 1..Len(results) - 1 :
         OrZero(results[i].reviews) >= OrZero(results[i + 1].reviews)
  /\ Completed =>
       \A k \in 0..3 :
         LET HasKey(l) == OrZero(l.reviews) = k
         IN SelectSeq(results, HasKey) = SelectSeq(finalResults, HasKey)

C6_Witness ==
  /\ Completed /\ Len(results) = 2 /\ results # finalResults
  /\ results[2].reviews = None /\ results[1].reviews # None

\* C7: on the complex path, when N of the M detail fetches fail, the
\* pipeline ends with status 'success' (never 'error'), and with
\* excludeHasWebsite off the final set holds exactly the M-N records of the
\* fetches that succeeded.
C7_PartialFailure ==
  /\ pc = "enrich" => status = "loading"
  /\ (pc = "done" /\ fetchFieldsCalls > 0) =>
       /\ status = "success"
       /\ ~onlyNoWebsite =>
            /\ Len(results) = fetchFieldsCalls - Cardinality(failedFetches)
            /\ \A i \in Fetching \ failedFetches :
                 \E j \in 1..Len(results) : results[j].place_id = PlaceId(candidates[i])
            /\ \A j \in 1..Len(results) :
                 \E i \in Fetching \ failedFetches : results[j].place_id = PlaceId(candidates[i])

C7_Witness ==
  /\ pc = "done" /\ ~onlyNoWebsite /\ status = "success"
  /\ fetchFieldsCalls = 2 /\ Cardinality(failedFetches) = 1 /\ Len(results) = 1

\* one of the conditions that end the collection holds: the target is
\* reached, the provider reports no next page, or the last answer was not OK
StopCondition ==
  /\ pageLog # <<>>
  /\ \/ Len(collected) >= targetLeads
     \/ ~hasNextPage
     \/ pageLog[Len(pageLog)] # "OK"

C8_Safety ==
  /\ resolveCount <= 1
  /\ StopCondition => (outstanding = 0 /\ timer = None /\ resolveCount = 1)
  /\ (path = "complex" /\ ~StopCondition) => (resolveCount = 0 /\ pc = "collecting")

\* C8: the Pagination Collector always terminates: it resolves exactly once,
\* as soon as the survivors reach targetCount or the provider reports no
\* next page or zero results (or an error), and no page is requested or
\* scheduled once one of these holds.
C8_CollectorTerminates ==
  /\ []C8_Safety
  /\ [][StopCondition => textSearchCalls' <= textSearchCalls]_vars
  /\ (pc = "collecting") ~> (pc # "collecting" /\ resolveCount = 1)

C8_Witness ==
  /\ pc = "complexImport" /\ resolveCount = 1
  /\ Len(pageLog) = 2 /\ Len(collected) = targetLeads /\ textSearchCalls = 2

\* C9: in every terminating case the collector returns at most targetCount
\* candidates, for every targetCount the form admits.
C9_AtMostTargetCount ==
  resolveCount > 0 => Len(candidates) <= targetLeads

\* C10: a next page is requested only when the survivors are fewer than
\* targetCount and the provider reports a next page, and only 2 seconds
\* after the previous page was received; at most one page request is
\* outstanding or scheduled at any time.
C10_PagingDelayedSerialized ==
  /\ [][(textSearchCalls > 0 /\ textSearchCalls' > textSearchCalls) =>
          (Len(collected) < targetLeads /\ hasNextPage /\ elapsed >= 2)]_vars
  /\ [](outstanding + (IF timer = None THEN 0 ELSE 1) <= 1)

C10_Witness ==
  /\ textSearchCalls = 2 /\ outstanding = 1 /\ elapsed = 2 /\ timer = None
  /\ Len(collected) = 0 /\ targetLeads = 1

LaterPageError == Len(pageLog) >= 2 /\ pageLog[Len(pageLog)] = "ERROR"

ConfigurationIncomplete == ~apiKey \/ location = "" \/ category = ""

\* C13: while the credential, the location or the category is missing, an
\* invocation of the search starts no pipeline (status never becomes
\* 'loading') and causes no network activity of any kind: no provider
\* script starts loading and no provider call is made.
C13_ConfigErrorBeforeNetwork ==
  /\ [](ConfigurationIncomplete => (status # "loading" /\ pc = "idle"))
  /\ [][ConfigurationIncomplete =>
          /\ scriptsLoading' <= scriptsLoading
          /\ searchByTextCalls' <= searchByTextCalls
          /\ textSearchCalls' <= textSearchCalls
          /\ fetchFieldsCalls' <= fetchFieldsCalls]_vars

\* C14: for any sequence of clicks on the search button at most one search
\* pipeline is in flight at any time: from the invocation of a search, its
\* wait for the provider script and its timed retries included, until its
\* completion, no other invocation starts a pipeline.
C14_OnePipelineInFlight ==
  inFlight <= 1

\* the fields of the provider that only the Rich tier requests
RichFields == {"websiteURI", "nationalPhoneNumber", "rating", "userRatingCount"}

\* C15: every lead a search in the Lean tier (PRO) produces, on either
\* path, has website, phone, rating and review count absent, and the field
\* mask of that search holds none of websiteURI, nationalPhoneNumber,
\* rating, userRatingCount; every lead a search in the Rich tier (BUSINESS)
\* produces carries each of the four that the provider record of its
\* place has.
C15_TierFieldIntegrity ==
  /\ (path # "none" /\ searchMode = "PRO") => selectedFields \cap RichFields = {}
  /\ (Completed /\ searchMode = "PRO") =>
       \A i \in 1..Len(results) :
         /\ results[i].website = None /\ results[i].phone = None
         /\ results[i].rating = None /\ results[i].reviews = None
  /\ (Completed /\ searchMode = "BUSINESS") =>
       \A i \in 1..Len(results) :
         LET p == results[i].name
         IN /\ results[i].website = WebsiteURI(p)
            /\ results[i].phone = PhoneNumber(p)
            /\ results[i].rating = Rating(p)
            /\ results[i].reviews = UserRatingsTotal(p)

C15_Witness ==
  /\ Completed /\ searchMode = "BUSINESS" /\ path = "complex" /\ Len(results) = 2
  /\ results[2].website # None /\ results[2].phone # None
  /\ results[2].rating # None /\ results[2].reviews # None
  /\ results[1].website = None /\ results[1].phone # None

\* C16: right after a successful search, on either path, every lead of the
\* working set has status 'Pendiente' and empty notes, whatever annotations
\* the leads of the previous working set carried; the previous working set
\* is gone from the moment the search starts
C16_FreshCrmDefaults ==
  /\ Completed =>
       \A i \in 1..Len(results) :
         results[i].status = "Pendiente" /\ results[i].notes = ""
  /\ Completed => \A i \in 1..Len(finalResults) :
       finalResults[i].status = "Pendiente" /\ finalResults[i].notes = ""
  /\ pc \notin {"idle", "done"} => results = <<>>

\* a search of the complex path returned a lead that was annotated in the
\* working set the search replaced
C16_Witness ==
  /\ Completed /\ path = "complex"
  /\ \E i \in 1..Len(results) : results[i].place_id \in annotated

\* the same on the fast path
C16_WitnessFastPath ==
  /\ Completed /\ path = "simple"
  /\ \E i \in 1..Len(results) : results[i].place_id \in annotated

\* what the batch yields for candidate i, from the candidate and from
\* whether its fetch failed
BatchOutcome(i) ==
  IF PlaceId(candidates[i]) = None \/ i \in failedFetches
  THEN None
  ELSE DetailOutcome(candidates[i])

\* C17: on the complex path the working set is ranked and published only
\* after every detail fetch of the batch has settled, fulfilled or rejected;
\* the final set is the non-null outcomes in the order of the candidates,
\* whatever the order in which the fetches completed
C17_PublishAfterBatchSettled ==
  /\ [](pc = "enrich" => status = "loading" /\ results = <<>> /\ finalResults = <<>>)
  /\ [](pc = "done" /\ path = "complex" /\ status = "success" =>
         /\ settled = 1..Len(candidates)
         /\ Len(detailed) = Len(candidates)
         /\ finalResults = NonNull([i \in 1..Len(candidates) |-> BatchOutcome(i)])
         /\ results = SortByReviews(finalResults))
  /\ [][pc = "enrich" /\ pc' # "enrich" =>
          settled = 1..Len(candidates) /\ settled' = settled /\ detailed' = detailed]_vars

\* a batch of two fetches, one fulfilled and one rejected, was published
C17_Witness ==
  /\ pc = "done" /\ path = "complex" /\ status = "success"
  /\ Cardinality(Fetching) = 2
  /\ Cardinality(failedFetches) = 1
  /\ Len(finalResults) = 1

\* the terminal failure with the provider's message attached
FailedWith(st, msg, set, final) ==
  /\ st = "error"
  /\ msg \in { <<"Search failed: ", m>> : m \in ProviderMessages }
  /\ set = <<>> /\ final = <<>>

\* C18: when the searchByText call of the fast path fails the pipeline ends
\* with status 'error', the message carries the provider's message and the
\* working set is empty; nothing partial is published and the status of that
\* invocation never becomes 'success'
C18_SimpleSearchFailure ==
  /\ [][SearchByTextRejected =>
          /\ pc' = "done"
          /\ FailedWith(status', errorMessage', results', finalResults')]_vars
  /\ [][pc = "simpleSearch" /\ pc' # pc =>
          /\ pc' = "done"
          /\ \/ status' = "success"
             \/ FailedWith(status', errorMessage', results', finalResults')]_vars
  /\ [](pc = "simpleSearch" => status = "loading" /\ results = <<>>)
  /\ [][pc = "done" /\ status = "error" =>
          pc' \in {"done", "idle"} /\ status' = "error" /\ results' = <<>>]_vars

\* the search that followed a successful one failed in searchByText
C18_Witness ==
  /\ pc = "done" /\ path = "simple" /\ searchByTextCalls = 1
  /\ FailedWith(status, errorMessage, results, finalResults)
  /\ lastSearchedCategory # ""

\* the store holds the working set and the last searched terms
Persisted(store, set, cat, loc) ==
  /\ store = [crm_results |-> Some(Stringify(set)),
              crm_last_category |-> Some(cat),
              crm_last_location |-> Some(loc)]
  /\ Parse(store.crm_results[1]) = set

\* C19: the persistent store is read once, at startup; whenever the working
\* set becomes non-empty or changes while non-empty (a search completes, a
\* status or the notes of a lead are edited) the stored working set and the
\* stored search terms are overwritten and equal the ones in memory
C19_StoreMirrorsWorkingSet ==
  /\ [](storageReads = 1)
  /\ [](Len(results) > 0 =>
         Persisted(storage, results, lastSearchedCategory, lastSearchedLocation))
  /\ [][results' # results /\ Len(results') > 0 =>
          Persisted(storage', results', lastSearchedCategory', lastSearchedLocation')]_vars

\* the leads of a second search, for another category, with an edited lead
C19_Witness ==
  /\ pc = "idle" /\ Len(results) > 0
  /\ Annotated(results) # {}
  /\ lastSearchedCategory = "b"
  /\ Persisted(storage, results, lastSearchedCategory, lastSearchedLocation)

\* an invocation made with a credential has not reached its outcome: it
\* waits for its timed re-invocation or its pipeline is in flight
InvocationPending == apiKey /\ (timers > 0 \/ pc \notin {"idle", "done"})

\* no invocation waits or runs
InvocationsOver == timers = 0 /\ pc \in {"idle", "done"}

\* C20: every invocation of the search made with a credential reaches a
\* terminal outcome, a configuration error, 'success' or 'error': the timed
\* re-invocation while the provider script is not loaded ends, also when
\* the script fails to load
C20_InvocationTerminates == InvocationPending ~> InvocationsOver

\* a pipeline that started runs to its end
C20_PipelineTerminates == (pc \notin {"idle", "done"}) ~> (pc = "done")

\* a timed re-invocation ends once the script is loaded
C20_RetryEndsOnceLoaded == (timers > 0 /\ scriptLoadedRef) ~> (timers = 0)

\* a script element was appended in this session: one is loading, or one
\* has loaded, or the invocation that appended one still waits for its
\* timed re-invocation (a timer is set only together with loadGoogleMaps,
\* and is set again at every firing until the script has loaded)
LoadStarted == scriptsLoading > 0 \/ scriptLoadedRef \/ timers > 0

\* C21: the provider script element is appended to the page at most once
\* in a session: once a load has been started, no later call of
\* loadGoogleMaps, from a click or from the timed re-invocation, appends
\* another script
C21_ScriptInjectedOnce ==
  [][LoadStarted => scriptsLoading' <= scriptsLoading]_vars

\* C22: changing the status or the notes of a lead shown in the table
\* changes that field of that lead of the working set and nothing else:
\* the other leads, the other fields, the order and the length stay, for
\* every working set a search produces and with or without a text filter
C22_EditChangesThatLead ==
  [][\A row \in 1..Len(results) :
       /\ \A newStatus \in StatusInputs :
            StatusEdit(row, newStatus) =>
              results' = [results EXCEPT ![row].status = newStatus]
       /\ \A newNotes \in NotesInputs :
            NotesEdit(row, newNotes) =>
              results' = [results EXCEPT ![row].notes = newNotes]]_vars

\* the leads of the working set have place_ids that differ
DistinctPlaceIds ==
  \A i, j \in 1..Len(results) : i # j => results[i].place_id # results[j].place_id

\* the edits of a working set without a repeated place_id
C22_EditOfDistinctLeads ==
  [][DistinctPlaceIds =>
       \A row \in 1..Len(results) :
         /\ \A newStatus \in StatusInputs :
              StatusEdit(row, newStatus) =>
                results' = [results EXCEPT ![row].status = newStatus]
         /\ \A newNotes \in NotesInputs :
              NotesEdit(row, newNotes) =>
                results' = [results EXCEPT ![row].notes = newNotes]]_vars

\* C23: the stored working set is only ever overwritten with a non-empty
\* working set: the start of a search, a search that ends without leads and
\* a search that ends in error leave the stored set and the stored search
\* terms as they are, and a page load after such a search restores the
\* leads of the previous search with their annotations
C23_StoreKeepsLastNonEmptySet ==
  /\ [](storage.crm_results # None => Len(storage.crm_results[1]) > 0)
  /\ [][Len(results') = 0 => storage' = storage]_vars
  /\ [][storage' # storage =>
          /\ Len(results') > 0
          /\ storage'.crm_results = Some(Stringify(results'))]_vars
  /\ [][pc # "idle" /\ pc' = "done" /\ (status' = "error" \/ results' = <<>>) =>
          storage' = storage]_vars
  /\ [][Reload /\ storage.crm_results # None =>
          /\ results' = Parse(storage.crm_results[1])
          /\ Stringify(results') = storage.crm_results[1]
          /\ lastSearchedCategory' = storage.crm_last_category[1]
          /\ lastSearchedLocation' = storage.crm_last_location[1]
          /\ storage' = storage]_vars

\* a search for another category ended without leads; the store still
\* holds the annotated leads and the terms of the search before
C23_Witness ==
  /\ pc = "done" /\ status = "success" /\ results = <<>>
  /\ lastSearchedCategory = "b"
  /\ storage.crm_last_category = Some("a")
  /\ storage.crm_results # None
  /\ Annotated(Parse(storage.crm_results[1])) # {}

\* the same after a search that ended in error
C23_WitnessError ==
  /\ pc = "done" /\ status = "error" /\ results = <<>>
  /\ category = "b"
  /\ storage.crm_last_category = Some("a")
  /\ storage.crm_results # None
  /\ Annotated(Parse(storage.crm_results[1])) # {}

\* C24: after a successful search of the fast path the working set holds
\* at most targetLeads leads, for every target of a configuration that
\* takes the fast path (targetLeads <= 20) and however many records the
\* single searchByText call returns.  Stated for the targets that are
\* counts (0 or more); a negative target is below every length
C24_SimplePathAtMostTarget ==
  (Completed /\ path = "simple" /\ targetLeads >= 0) => Len(results) <= targetLeads

====
